---- MODULE Spec2Model ----
(***************************************************************************)
(* A model of the tile-based path tracer in src/src/trace.cpp (and of its  *)
(* earlier sequential revisions in src/unnamed).                           *)
(*                                                                         *)
(*   Spec       main() with its worker threads running renderImage()       *)
(*   SpecTiles  the tile loop of renderImage() for free width and height   *)
(***************************************************************************)
EXTENDS Integers, Sequences, FiniteSets, TLC

\* ------------------------------------------------------------------ bounds
MaxWorkers == 2     \* largest value of hardware_concurrency() explored
MaxWidth   == 66    \* SpecTiles: widths 2..MaxWidth
MaxHeight  == 34    \* SpecTiles: heights 1..MaxHeight

\* widths given on the command line in Spec (argv[1])
Widths == {40, 48, 50, 64, 96}

\* the smallest width at which the double product tsize_x * tiles_x is
\* rounded to a value below the width
WideWidth == 230

\* ------------------------------------------------------- program constants
TILESIZE == 32

VARIABLES
    image_width,    \* main / renderImage: int image_width
    image_height,   \* main: long image_height
    count,          \* main: std::thread::hardware_concurrency()
    atile,          \* std::atomic<int> atile
    image,          \* std::vector<colour> image, as the writes it has received
    wpc,            \* per worker thread: position in renderImage
    wtile,          \* per worker thread: local `tile`
    claims,         \* history: per value fetched from atile, the workers that got it
    mpc,            \* main: position
    mi,             \* main: loop index over threads (creation, then join)
    out,            \* std::cout, the image output stream
    stile,          \* sequential renderImage: loop variable `tile`
    samples_per_pixel, \* main: int samples_per_pixel
    max_depth,      \* main: int max_depth
    argc,           \* main: int argc
    argv,           \* main: char *argv[], argv[1..argc-1] as character sequences
    apc,            \* main: position in the argument switch
    world,          \* the hittable_list handed to ray_colour
    ray,            \* renderImage: ray r, the argument of the top-level ray_colour call
    stack,          \* the activation records of ray_colour, outermost first
    ret,            \* the value a ray_colour call has just returned, or None
    hits,           \* number of world.hit calls made
    scatters,       \* number of material scatter calls made
    px,             \* renderImage: pixel column x
    py,             \* renderImage: pixel row y
    smp,            \* renderImage: sample loop variable s
    pixel_colour,   \* renderImage: colour pixel_colour
    draws,          \* the random draws consumed for the pixel, per pass
    pass,           \* which of two render passes of the same pixel is running
    stored,         \* per pass, the value written to image[image_width*y+x]
    outpx,          \* per pass, the three integers written for the pixel to std::cout
    ppc             \* position in the pixel's pipeline

schedVars == <<count, atile, image, wpc, wtile, claims, mpc, mi, out, stile>>
argVars == <<argc, argv, apc>>
rayVars == <<ray, stack, ret>>
pixVars == <<px, py, smp, pixel_colour, draws, pass, stored, outpx, ppc>>

vars == <<image_width, image_height, count, atile, image, wpc, wtile, claims,
          mpc, mi, out, stile, samples_per_pixel, max_depth, argc, argv, apc,
          world, ray, stack, ret, hits, scatters,
          px, py, smp, pixel_colour, draws, pass, stored, outpx, ppc>>

\* what the scheduling actions of main and renderImage leave alone
sceneVars == <<samples_per_pixel, max_depth, argVars, world, rayVars, hits,
               scatters, pixVars>>

\* ------------------------------------------------------------ tile geometry
\* trace.cpp:143-145
tiles_x(w) == w \div TILESIZE
tiles_y(h) == h \div TILESIZE
tile_count(w, h) == tiles_x(w) * tiles_y(h)

\* trace.cpp:148-149,160-165.  tsize_x = static_cast<double>(w) / tiles_x is
\* an IEEE-754 double and static_cast<int>(tsize_x * k) truncates the rounded
\* double product.  With n = tiles_x >= 1 the quotient w/n lies in [32,64),
\* so tsize_x is the multiple of 2^-47 nearest to w/n (ties to even).

\* 2^47 modulo n, as (2^15)^3 * 2^2; n stays far below 2^10 here
Pow47Mod(n) ==
    LET p15 == 32768 % n
    IN  (((((p15 * p15) % n) * p15) % n) * 4) % n

\* the largest power of two that is not above j, for j >= 1
RECURSIVE Pow2Below(_)
Pow2Below(j) == IF j < 2 THEN 1 ELSE 2 * Pow2Below(j \div 2)

\* trace.cpp:148-149: the rounding error of the division, as the integer
\* n * (tsize - dim/n) * 2^47.  It is -R when the quotient is rounded down
\* and n - R when it is rounded up, R being the remainder of dim * 2^47 by n.
TsizeError(dim, n) ==
    LET R    == ((dim % n) * Pow47Mod(n)) % n
        \* the quotient floor(dim * 2^47 / n) is odd
        Fodd == (((dim % (2 * n)) * Pow47Mod(2 * n) + 2 * n - R) % (2 * n)) = n
        up   == 2 * R > n \/ (2 * R = n /\ Fodd)
    IN  IF R = 0 THEN 0 ELSE IF up THEN n - R ELSE 0 - R

\* trace.cpp:160-165: static_cast<int>(tsize * k) for tsize = double(dim)/n.
\* The exact product is dim*k/n + TsizeError*k / (n * 2^47).  Where dim*k/n
\* is no integer the product and its rounding stay strictly between
\* J = floor(dim*k/n) and J + 1.  Where it is the integer J and tsize was
\* rounded down, the product lies below J and is rounded to J only if it is
\* no further from J than half the spacing of the doubles just below J
\* (2^-52 times the power of two below J, half of that when J is itself a
\* power of two); otherwise it is rounded to a double below J and the cast
\* yields J - 1.
StretchedEdge(dim, n, k) ==
    LET J   == (dim * k) \div n
        rho == (dim * k) % n
        err == TsizeError(dim, n)
        P   == Pow2Below(J)
    IN  IF k = 0 THEN 0
        ELSE IF rho # 0 \/ err >= 0 THEN J
        ELSE IF (0 - err) * k * (IF J = P THEN 128 ELSE 64) <= n * P THEN J
        ELSE J - 1

\* trace.cpp:160-165.  The operators are only used for tile < tile_count,
\* where tiles_x and tiles_y are positive.
tx(w, tile) == tile % tiles_x(w)
ty(w, tile) == tile \div tiles_x(w)
start_x(w, tile) == StretchedEdge(w, tiles_x(w), tx(w, tile))
end_x(w, tile)   == StretchedEdge(w, tiles_x(w), tx(w, tile) + 1)
start_y(w, h, tile) == StretchedEdge(h, tiles_y(h), ty(w, tile))
end_y(w, h, tile)   == StretchedEdge(h, tiles_y(h), ty(w, tile) + 1)

\* trace.cpp:160-165: the rectangle [x0,x1) x [y0,y1) of one tile
TileRect(w, h, tile) ==
    [x0 |-> start_x(w, tile), x1 |-> end_x(w, tile),
     y0 |-> start_y(w, h, tile), y1 |-> end_y(w, h, tile)]

\* trace.cpp:168-169,177: the indices image_width*y+x written by the pixel
\* loops `for y in [y0,y1) for x in [x0,x1)`
RectIndices(w, r) ==
    { w * y + x : x \in r.x0 .. (r.x1 - 1), y \in r.y0 .. (r.y1 - 1) }

\* trace.cpp:221-222: std::vector<colour> image(pixel_count).  The buffer is
\* represented by the writes it has received: for every thread (0 is the
\* main thread) the rectangles whose indices it has written, in order.
pixel_count(w, h) == h * w
Threads == 0 .. MaxWorkers
NewImage == [t \in Threads |-> <<>>]

\* trace.cpp:168-179: the pixel loops of one tile, run by thread `who`;
\* every index of the rectangle receives one write
WriteTile(img, w, h, tile, who) ==
    [img EXCEPT ![who] = Append(@, TileRect(w, h, tile))]

\* the writes the buffer has received, as <<thread, position in its log>>
LogEntries(img) == UNION { { <<t, k>> : k \in 1 .. Len(img[t]) } : t \in DOMAIN img }

\* how many writes index i of the buffer has received, and from which threads
\* (a rectangle lies within the columns 0..w-1, so it holds index i exactly
\* if it holds the pixel x = i % w, y = i \div w)
InRect(r, x, y) == r.x0 <= x /\ x < r.x1 /\ r.y0 <= y /\ y < r.y1
WritesAt(img, w, i) ==
    { e \in LogEntries(img) : InRect(img[e[1]][e[2]], i % w, i \div w) }
WriteCount(img, w, i) == Cardinality(WritesAt(img, w, i))
Writers(img, w, i) == { e[1] : e \in WritesAt(img, w, i) }

\* the variables of ray_colour, of the pixel pipeline and of the argument
\* switch, where a specification does not exercise them
SceneIdle ==
    /\ samples_per_pixel = 0
    /\ max_depth = 0
    /\ argc = 0
    /\ argv = <<>>
    /\ apc = "idle"
    /\ world = {}
    /\ ray = <<>>
    /\ stack = <<>>
    /\ ret = <<>>
    /\ hits = 0
    /\ scatters = 0
    /\ px = 0
    /\ py = 0
    /\ smp = 0
    /\ pixel_colour = <<>>
    /\ draws = <<>>
    /\ pass = 0
    /\ stored = <<>>
    /\ outpx = <<>>
    /\ ppc = "idle"

\* ------------------------------------------------------------------ main()
Workers == 1 .. MaxWorkers

\* trace.cpp:212 with aspect_ratio = 3.0/2.0 set by random_balls (line 127);
\* w / 1.5 is truncated, which is floor(2w/3) for w >= 0
HeightOf(w) == (2 * w) \div 3

\* trace.cpp:185-201,225: the width given and the number of workers of a
\* run; the wide image is rendered by a single worker
Runs == (Widths \X (0 .. MaxWorkers)) \cup {<<WideWidth, 1>>}

Init ==
    /\ \E r \in Runs : image_width = r[1] /\ count = r[2]
    /\ image_height = HeightOf(image_width)
    /\ atile = 0
    /\ image = NewImage
    /\ wpc = [w \in Workers |-> "unstarted"]
    /\ wtile = [w \in Workers |-> -1]
    /\ claims = <<>>
    /\ mpc = "header"
    /\ mi = 0
    /\ out = <<>>
    /\ stile = 0
    /\ SceneIdle

\* trace.cpp:220-222: the header is sent to std::cout, then the buffer is allocated
WriteHeader ==
    /\ mpc = "header"
    /\ out' = Append(out, <<"P3", image_width, image_height, 255>>)
    /\ image' = NewImage
    /\ mpc' = "spawn"
    /\ mi' = 0
    /\ UNCHANGED <<image_width, image_height, count, atile, wpc, wtile, claims, stile>>
    /\ UNCHANGED sceneVars

\* the counter is set back to 0 whenever a thread is created
SpawnResetsCounter ==
    /\ mpc = "spawn"
    /\ mi < count
    /\ wpc' = [wpc EXCEPT ![mi + 1] = "sleep"]
    /\ mi' = mi + 1
    /\ atile' = 0
    /\ UNCHANGED <<image_width, image_height, count, image, wtile, claims,
                   mpc, out, stile>>
    /\ UNCHANGED sceneVars

\* trace.cpp:229-231: one iteration of the thread-creating loop
Spawn ==
    /\ mpc = "spawn"
    /\ mi < count
    /\ wpc' = [wpc EXCEPT ![mi + 1] = "sleep"]
    /\ mi' = mi + 1
    /\ UNCHANGED <<image_width, image_height, count, atile, image, wtile, claims,
                   mpc, out, stile>>
    /\ UNCHANGED sceneVars

\* trace.cpp:229: the creating loop ends
SpawnDone ==
    /\ mpc = "spawn"
    /\ mi >= count
    /\ mpc' = "join"
    /\ mi' = 0
    /\ UNCHANGED <<image_width, image_height, count, atile, image, wpc, wtile,
                   claims, out, stile>>
    /\ UNCHANGED sceneVars

\* the thread is let go without waiting for it
JoinNoWait ==
    /\ mpc = "join"
    /\ mi < count
    /\ mi' = mi + 1
    /\ UNCHANGED <<image_width, image_height, count, atile, image, wpc, wtile,
                   claims, mpc, out, stile>>
    /\ UNCHANGED sceneVars

\* trace.cpp:232-234: t.join() returns once thread t has left renderImage
Join ==
    /\ mpc = "join"
    /\ mi < count
    /\ wpc[mi + 1] = "done"
    /\ wpc' = [wpc EXCEPT ![mi + 1] = "joined"]
    /\ mi' = mi + 1
    /\ UNCHANGED <<image_width, image_height, count, atile, image, wtile, claims,
                   mpc, out, stile>>
    /\ UNCHANGED sceneVars

\* trace.cpp:232: the joining loop ends
JoinDone ==
    /\ mpc = "join"
    /\ mi >= count
    /\ mpc' = "output"
    /\ UNCHANGED <<image_width, image_height, count, atile, image, wpc, wtile,
                   claims, mi, out, stile>>
    /\ UNCHANGED sceneVars

\* trace.cpp:242-246: one line per element of the buffer, in buffer order;
\* <<"pixels", a, b>> stands for the lines of indices a..b in this order
OutputImage ==
    /\ mpc = "output"
    /\ out' = Append(out, <<"pixels", 0, pixel_count(image_width, image_height) - 1>>)
    /\ mpc' = "done"
    /\ UNCHANGED <<image_width, image_height, count, atile, image, wpc, wtile,
                   claims, mi, stile>>
    /\ UNCHANGED sceneVars

\* ------------------------------------------------- renderImage(), threaded
\* trace.cpp:152: the random start-up delay
StartDelay(w) ==
    /\ wpc[w] = "sleep"
    /\ wpc' = [wpc EXCEPT ![w] = "claim"]
    /\ UNCHANGED <<image_width, image_height, count, atile, image, wtile, claims,
                   mpc, mi, out, stile>>
    /\ UNCHANGED sceneVars

\* trace.cpp:156: the value `atile++` yields, and the value it stores
FetchResult(a) == a
FetchStore(a) == a + 1

\* the fetch done as a plain load followed, in a later step, by a plain store
ClaimLoadThenStore(w) ==
    \/ /\ wpc[w] = "claim"
       /\ wtile' = [wtile EXCEPT ![w] = atile]
       /\ wpc' = [wpc EXCEPT ![w] = "store"]
       /\ UNCHANGED <<image_width, image_height, count, atile, image, claims,
                      mpc, mi, out, stile>>
       /\ UNCHANGED sceneVars
    \/ /\ wpc[w] = "store"
       /\ atile' = wtile[w] + 1
       /\ claims' = [k \in DOMAIN claims \cup {wtile[w]} |->
                        IF k = wtile[w]
                        THEN Append(IF k \in DOMAIN claims THEN claims[k] ELSE <<>>, w)
                        ELSE claims[k]]
       /\ wpc' = [wpc EXCEPT ![w] =
                     IF wtile[w] >= tile_count(image_width, image_height)
                     THEN "done" ELSE "render"]
       /\ UNCHANGED <<image_width, image_height, count, image, wtile,
                      mpc, mi, out, stile>>
       /\ UNCHANGED sceneVars

\* trace.cpp:156-157: int tile = atile++; if (tile >= tile_count) break;
Claim(w) ==
    /\ wpc[w] = "claim"
    /\ LET t == FetchResult(atile)
       IN  /\ wtile' = [wtile EXCEPT ![w] = t]
           /\ claims' = [k \in DOMAIN claims \cup {t} |->
                            IF k = t
                            THEN Append(IF k \in DOMAIN claims THEN claims[k] ELSE <<>>, w)
                            ELSE claims[k]]
           /\ wpc' = [wpc EXCEPT ![w] =
                         IF t >= tile_count(image_width, image_height)
                         THEN "done" ELSE "render"]
    /\ atile' = FetchStore(atile)
    /\ UNCHANGED <<image_width, image_height, count, image, mpc, mi, out, stile>>
    /\ UNCHANGED sceneVars

\* the worker returns after its first tile
RenderTileOnce(w) ==
    /\ wpc[w] = "render"
    /\ image' = WriteTile(image, image_width, image_height, wtile[w], w)
    /\ wpc' = [wpc EXCEPT ![w] = "done"]
    /\ UNCHANGED <<image_width, image_height, count, atile, wtile, claims,
                   mpc, mi, out, stile>>
    /\ UNCHANGED sceneVars

\* trace.cpp:160-181: the claimed tile is rendered, then the loop repeats
RenderTile(w) ==
    /\ wpc[w] = "render"
    /\ image' = WriteTile(image, image_width, image_height, wtile[w], w)
    /\ wpc' = [wpc EXCEPT ![w] = "claim"]
    /\ UNCHANGED <<image_width, image_height, count, atile, wtile, claims,
                   mpc, mi, out, stile>>
    /\ UNCHANGED sceneVars

Worker(w) == StartDelay(w) \/ Claim(w) \/ RenderTile(w)

Main == WriteHeader \/ Spawn \/ SpawnDone \/ Join \/ JoinDone \/ OutputImage

Next ==
    \/ WriteHeader
    \/ Spawn
    \/ SpawnDone
    \/ Join
    \/ JoinDone
    \/ OutputImage
    \/ \E w \in Workers : StartDelay(w)
    \/ \E w \in Workers : Claim(w)
    \/ \E w \in Workers : RenderTile(w)

Spec == Init /\ [][Next]_vars

\* ----------------------------------------------- renderImage(), sequential
\* unnamed/part_001:196-248 called from its main (line 298) with a fresh
\* buffer; width and height are free here
InitTiles ==
    /\ image_width \in (2 .. MaxWidth) \cup {WideWidth}
    /\ image_height \in 1 .. MaxHeight
    /\ count = 0
    /\ atile = 0
    /\ image = NewImage
    /\ wpc = [w \in Workers |-> "unstarted"]
    /\ wtile = [w \in Workers |-> -1]
    /\ claims = <<>>
    /\ mpc = "render"
    /\ mi = 0
    /\ out = <<>>
    /\ stile = 0
    /\ SceneIdle

\* part_001:213-247: one iteration of `for (tile = 0; tile < tile_count; tile++)`
SeqTile ==
    /\ mpc = "render"
    /\ stile < tile_count(image_width, image_height)
    /\ image' = WriteTile(image, image_width, image_height, stile, 0)
    /\ stile' = stile + 1
    /\ UNCHANGED <<image_width, image_height, count, atile, wpc, wtile, claims,
                   mpc, mi, out>>
    /\ UNCHANGED sceneVars

\* part_001:213: the loop ends and renderImage returns
SeqDone ==
    /\ mpc = "render"
    /\ stile >= tile_count(image_width, image_height)
    /\ mpc' = "rendered"
    /\ UNCHANGED <<image_width, image_height, count, atile, image, wpc, wtile,
                   claims, mi, out, stile>>
    /\ UNCHANGED sceneVars

NextTiles == SeqTile \/ SeqDone

SpecTiles == InitTiles /\ [][NextTiles]_vars

\* ------------------------------------------------------ colours and rays
\* A double in [0,1] is held as an integer number of thousandths; a colour or
\* a vec3 is a triple of such numbers.
Scale == 1000
None == <<>>

\* C++ division of ints truncates towards zero
TruncDiv(a, b) ==
    IF a >= 0 THEN a \div b ELSE -((-a) \div b)

\* sqrt on the integers: the largest k with k*k <= n
RECURSIVE SqrtFrom(_, _)
SqrtFrom(n, k) == IF (k + 1) * (k + 1) > n THEN k ELSE SqrtFrom(n, k + 1)
RECURSIVE SqrtBetween(_, _, _)
SqrtBetween(n, lo, hi) ==
    IF hi - lo <= 1 THEN (IF hi * hi <= n THEN hi ELSE lo)
    ELSE LET mid == (lo + hi) \div 2
         IN  IF mid * mid <= n THEN SqrtBetween(n, mid, hi)
             ELSE SqrtBetween(n, lo, mid)
ISqrt(n) == SqrtBetween(n, 0, 4000)

\* colour(0, 0, 0), trace.cpp:28,38
Black == <<0, 0, 0>>
White == <<Scale, Scale, Scale>>

\* colour * colour, element-wise (vec3.h)
MulColour(a, b) ==
    <<(a[1] * b[1]) \div Scale, (a[2] * b[2]) \div Scale, (a[3] * b[3]) \div Scale>>
\* colour += colour
AddColour(a, b) == <<a[1] + b[1], a[2] + b[2], a[3] + b[3]>>
\* colour / int
DivColour(a, n) == <<TruncDiv(a[1], n), TruncDiv(a[2], n), TruncDiv(a[3], n)>>

\* unit_vector(d).y() for a direction d (vec3.h)
UnitY(d) ==
    TruncDiv(d[2] * Scale, ISqrt(d[1] * d[1] + d[2] * d[2] + d[3] * d[3]))

\* trace.cpp:41-43: the background gradient along a ray of direction d
Background(d) ==
    LET t == (UnitY(d) + Scale) \div 2
    IN  <<((Scale - t) * 1000 + t * 500) \div Scale,
          ((Scale - t) * 1000 + t * 700) \div Scale,
          ((Scale - t) * 1000 + t * 1000) \div Scale>>

\* ------------------------------------------------------------ the scene
\* The materials of three_balls (trace.cpp:47-50).  A world is given by the
\* materials of the spheres in it; the empty hittable_list is {}.
Lambertian == [kind |-> "lambertian", albedo |-> <<800, 800, 0>>]
Metal      == [kind |-> "metal",      albedo |-> <<800, 600, 200>>]
Dielectric == [kind |-> "dielectric", albedo |-> White]
Materials == {Lambertian, Metal, Dielectric}
Worlds == SUBSET Materials

\* hittable_list::hit (hittable_list.h): which sphere a ray meets depends on
\* geometry that is not modelled; a ray may miss, or hit a sphere of any
\* material of the world.  An empty list reports no hit.
HitOutcomes(wld) == {None} \cup wld

\* directions a scattered ray may take
ScatterDirs == { <<0, 1000, 0>>, <<1000, -1000, 0>> }

\* material::scatter (material.h): a lambertian and a dielectric always
\* scatter, a metal scatters or absorbs; None is absorption, otherwise the
\* attenuation and the direction of the scattered ray
ScatterOutcomes(m) ==
    { [attenuation |-> m.albedo, scattered |-> d] : d \in ScatterDirs }
        \cup (IF m.kind = "metal" THEN {None} ELSE {})

\* camera::get_ray(s, t) (camera.h) for a camera at the origin looking down
\* -z with a viewport of half-height 1 and half-width 3/2 at focus distance
\* 1; lens is the offset drawn on the lens disk
get_ray(u, v, lens) ==
    << TruncDiv((2 * u - Scale) * 3, 2) - lens[1], (2 * v - Scale) - lens[2], -Scale >>

\* -------------------------------------------------------------- ray_colour
MaxDepth == 3
Depths == -1 .. MaxDepth
Rays0 == { get_ray(0, 0, <<0, 0>>), get_ray(500, 1000, <<0, 0>>) }

\* trace.cpp:24: a call ray_colour(r, world, depth) creates an activation
Frame(r, depth) ==
    [r |-> r, depth |-> depth, pc |-> "enter", mat |-> None, attenuation |-> None]

Top == stack[Len(stack)]
SetTop(f) == [stack EXCEPT ![Len(stack)] = f]
Pop == SubSeq(stack, 1, Len(stack) - 1)

InitRay ==
    /\ image_width = 0
    /\ image_height = 0
    /\ count = 0
    /\ atile = 0
    /\ image = NewImage
    /\ wpc = [w \in Workers |-> "unstarted"]
    /\ wtile = [w \in Workers |-> -1]
    /\ claims = <<>>
    /\ mpc = "idle"
    /\ mi = 0
    /\ out = <<>>
    /\ stile = 0
    /\ samples_per_pixel = 1
    /\ max_depth \in Depths
    /\ argc = 0
    /\ argv = <<>>
    /\ apc = "idle"
    /\ world \in Worlds
    /\ ray \in Rays0
    /\ stack = <<>>
    /\ ret = None
    /\ hits = 0
    /\ scatters = 0
    /\ px = 0
    /\ py = 0
    /\ smp = 0
    /\ pixel_colour = Black
    /\ draws = <<>>
    /\ pass = 0
    /\ stored = <<>>
    /\ outpx = <<>>
    /\ ppc = "call"

rayFrame == <<image_width, image_height, schedVars, samples_per_pixel, max_depth,
              argVars, world, ray, px, py, smp, draws, pass, stored, outpx>>

\* trace.cpp:175: renderImage calls ray_colour(r, world, max_depth)
RayCall ==
    /\ ppc = "call"
    /\ stack' = <<Frame(ray, max_depth)>>
    /\ ppc' = "running"
    /\ UNCHANGED <<rayFrame, ret, hits, scatters, pixel_colour>>

\* the depth test comes after the hit test
RayEnterHitFirst ==
    /\ ppc = "running"
    /\ ret = None
    /\ Top.pc = "enter"
    /\ hits' = hits + 1
    /\ IF Top.depth <= 0
       THEN /\ ret' = Black
            /\ stack' = Pop
       ELSE /\ ret' = None
            /\ stack' = SetTop([Top EXCEPT !.pc = "hit"])
    /\ UNCHANGED <<rayFrame, scatters, pixel_colour, ppc>>

\* the depth test lets depth 0 through
RayEnterBelowZero ==
    /\ ppc = "running"
    /\ ret = None
    /\ Top.pc = "enter"
    /\ IF Top.depth < 0
       THEN /\ ret' = Black
            /\ stack' = Pop
       ELSE /\ ret' = None
            /\ stack' = SetTop([Top EXCEPT !.pc = "hit"])
    /\ UNCHANGED <<rayFrame, hits, scatters, pixel_colour, ppc>>

\* trace.cpp:25-29: if (depth <= 0) return colour(0, 0, 0);
RayEnter ==
    /\ ppc = "running"
    /\ ret = None
    /\ Top.pc = "enter"
    /\ IF Top.depth <= 0
       THEN /\ ret' = Black
            /\ stack' = Pop
       ELSE /\ ret' = None
            /\ stack' = SetTop([Top EXCEPT !.pc = "hit"])
    /\ UNCHANGED <<rayFrame, hits, scatters, pixel_colour, ppc>>

\* trace.cpp:31,41-43: world.hit(r, 0.001, infinity, rec); on a miss the
\* background gradient is returned
RayHit ==
    /\ ppc = "running"
    /\ ret = None
    /\ Top.pc = "hit"
    /\ hits' = hits + 1
    /\ \E rec \in HitOutcomes(world) :
          IF rec = None
          THEN /\ ret' = Background(Top.r)
               /\ stack' = Pop
          ELSE /\ ret' = None
               /\ stack' = SetTop([Top EXCEPT !.pc = "scatter", !.mat = rec])
    /\ UNCHANGED <<rayFrame, scatters, pixel_colour, ppc>>

\* trace.cpp:32-38: rec.mat_ptr->scatter(r, rec, attenuation, scattered); on
\* absorption black is returned, otherwise ray_colour is called on the
\* scattered ray with depth - 1
RayScatter ==
    /\ ppc = "running"
    /\ ret = None
    /\ Top.pc = "scatter"
    /\ scatters' = scatters + 1
    /\ \E sc \in ScatterOutcomes(Top.mat) :
          IF sc = None
          THEN /\ ret' = Black
               /\ stack' = Pop
          ELSE /\ ret' = None
               /\ stack' = Append(SetTop([Top EXCEPT !.pc = "wait",
                                                      !.attenuation = sc.attenuation]),
                                  Frame(sc.scattered, Top.depth - 1))
    /\ UNCHANGED <<rayFrame, hits, pixel_colour, ppc>>

\* the value of the nested call is passed on without the attenuation
RayReturnUnattenuated ==
    /\ ppc = "running"
    /\ ret # None
    /\ stack # <<>>
    /\ Top.pc = "wait"
    /\ ret' = ret
    /\ stack' = Pop
    /\ UNCHANGED <<rayFrame, hits, scatters, pixel_colour, ppc>>

\* trace.cpp:35: return attenuation * ray_colour(scattered, world, depth - 1);
RayReturn ==
    /\ ppc = "running"
    /\ ret # None
    /\ stack # <<>>
    /\ Top.pc = "wait"
    /\ ret' = MulColour(Top.attenuation, ret)
    /\ stack' = Pop
    /\ UNCHANGED <<rayFrame, hits, scatters, pixel_colour, ppc>>

\* trace.cpp:175: pixel_colour += the value of the top-level call
RayDone ==
    /\ ppc = "running"
    /\ ret # None
    /\ stack = <<>>
    /\ pixel_colour' = AddColour(pixel_colour, ret)
    /\ ppc' = "returned"
    /\ UNCHANGED <<rayFrame, stack, ret, hits, scatters>>

NextRay ==
    \/ RayCall
    \/ RayEnter
    \/ RayHit
    \/ RayScatter
    \/ RayReturn
    \/ RayDone

SpecRay == InitRay /\ [][NextRay]_vars

\* a running call keeps being executed
FairSpecRay == SpecRay /\ WF_vars(NextRay)

\* ------------------------------------------------- one pixel, two passes
\* The body of the pixel loops of renderImage for one pixel (x, y), followed
\* by the line main writes for it, and then the same once more: a second
\* render pass over the same scene, drawing its own random numbers.
MaxSamples == 2

\* values of random_double(), in thousandths
Jitter == {0, 500}
\* offsets drawn on the lens disk by camera::get_ray
LensDraws == { <<0, 0>>, <<0, 100>> }

PixelWidths == {48}
PixelsOf(w, h) == { <<0, 0>>, <<w - 1, h - 1>> }

\* scenes and settings explored: the empty world with every sample count and
\* a depth that is negative, 1 or 2; and a world of one metal sphere
PixelConfigs ==
    { [world |-> {}, samples |-> n, depth |-> d] :
          n \in 1 .. MaxSamples, d \in {-1, 1, 2} }
      \cup { [world |-> {Metal}, samples |-> 1, depth |-> 1] }

\* trace.cpp:172-173: u and v of a sample of pixel (x, y) with jitter jx, jy
SampleU(x, jx, w) == (x * Scale + jx) \div (w - 1)
SampleV(y, jy, h) == Scale - (y * Scale + jy) \div (h - 1)

\* common.h clamp(x, min, max)
Clamp(x, lo, hi) == IF x < lo THEN lo ELSE IF x > hi THEN hi ELSE x

\* trace.cpp:243-245: static_cast<int>(256 * clamp(c, 0.0, 0.999))
Channel(c) == TruncDiv(256 * Clamp(c, 0, 999), Scale)

InitPixel ==
    /\ image_width \in PixelWidths
    /\ image_height = HeightOf(image_width)
    /\ count = 0
    /\ atile = 0
    /\ image = NewImage
    /\ wpc = [w \in Workers |-> "unstarted"]
    /\ wtile = [w \in Workers |-> -1]
    /\ claims = <<>>
    /\ mpc = "idle"
    /\ mi = 0
    /\ out = <<>>
    /\ stile = 0
    /\ \E cfg \in PixelConfigs :
          /\ world = cfg.world
          /\ samples_per_pixel = cfg.samples
          /\ max_depth = cfg.depth
    /\ argc = 0
    /\ argv = <<>>
    /\ apc = "idle"
    /\ ray = None
    /\ stack = <<>>
    /\ ret = None
    /\ hits = 0
    /\ scatters = 0
    /\ \E xy \in PixelsOf(image_width, image_height) :
          /\ px = xy[1]
          /\ py = xy[2]
    /\ smp = 0
    /\ pixel_colour = Black
    /\ draws = <<>>
    /\ pass = 1
    /\ stored = <<None, None>>
    /\ outpx = <<None, None>>
    /\ ppc = "sample"

pixFrame == <<image_width, image_height, schedVars, samples_per_pixel, max_depth,
              argVars, world, px, py>>

\* trace.cpp:171-174: s < samples_per_pixel; the jitter is drawn and the
\* camera makes the ray
PixSample ==
    /\ ppc = "sample"
    /\ smp < samples_per_pixel
    /\ \E jx \in Jitter, jy \in Jitter, lens \in LensDraws :
          /\ ray' = get_ray(SampleU(px, jx, image_width),
                            SampleV(py, jy, image_height), lens)
          /\ draws' = Append(draws, [jx |-> jx, jy |-> jy, lens |-> lens])
    /\ ppc' = "call"
    /\ UNCHANGED <<pixFrame, stack, ret, hits, scatters, smp, pixel_colour,
                   pass, stored, outpx>>

\* trace.cpp:171: s++
PixNextSample ==
    /\ ppc = "returned"
    /\ smp' = smp + 1
    /\ ret' = None
    /\ ppc' = "sample"
    /\ UNCHANGED <<pixFrame, ray, stack, hits, scatters, pixel_colour, draws,
                   pass, stored, outpx>>

\* the sum of the samples is stored undivided
PixStoreSum ==
    /\ ppc = "sample"
    /\ smp >= samples_per_pixel
    /\ stored' = [stored EXCEPT ![pass] = pixel_colour]
    /\ ppc' = "stored"
    /\ UNCHANGED <<pixFrame, ray, stack, ret, hits, scatters, smp, pixel_colour,
                   draws, pass, outpx>>

\* trace.cpp:177: image[image_width*y+x] = pixel_colour / samples_per_pixel
PixStore ==
    /\ ppc = "sample"
    /\ smp >= samples_per_pixel
    /\ stored' = [stored EXCEPT ![pass] = DivColour(pixel_colour, samples_per_pixel)]
    /\ ppc' = "stored"
    /\ UNCHANGED <<pixFrame, ray, stack, ret, hits, scatters, smp, pixel_colour,
                   draws, pass, outpx>>

\* trace.cpp:242-246: the line main writes for the pixel
PixOutput ==
    /\ ppc = "stored"
    /\ outpx' = [outpx EXCEPT ![pass] =
                     <<Channel(stored[pass][1]), Channel(stored[pass][2]),
                       Channel(stored[pass][3])>>]
    /\ ppc' = "written"
    /\ UNCHANGED <<pixFrame, ray, stack, ret, hits, scatters, smp, pixel_colour,
                   draws, pass, stored>>

\* the program is run again on the same scene (trace.cpp:170 for the pixel)
PixNextPass ==
    /\ ppc = "written"
    /\ pass = 1
    /\ pass' = 2
    /\ smp' = 0
    /\ pixel_colour' = Black
    /\ draws' = <<>>
    /\ ppc' = "sample"
    /\ UNCHANGED <<pixFrame, ray, stack, ret, hits, scatters, stored, outpx>>

NextPixel ==
    \/ PixSample
    \/ RayCall
    \/ RayEnter
    \/ RayHit
    \/ RayScatter
    \/ RayReturn
    \/ RayDone
    \/ PixNextSample
    \/ PixStore
    \/ PixOutput
    \/ PixNextPass

SpecPixel == InitPixel /\ [][NextPixel]_vars

\* ------------------------------------------------ main(): the arguments
DEFAULT_WIDTH == 800
DEFAULT_SAMPLES == 100
DEFAULT_DEPTH == 50

MaxArgLen == 2
ArgChars == {"0", "7", "-", "x"}
ArgStrings == UNION { [1 .. n -> ArgChars] : n \in 0 .. MaxArgLen }
\* a fourth argument, the scene selector of the interface description
SceneArgs == { <<"7">> }

IsDigit(c) == c \in {"0", "7"}
DigitVal(c) == IF c = "7" THEN 7 ELSE 0

\* the digits of str from position i on: how many there are and their value
RECURSIVE Digits(_, _, _, _)
Digits(str, i, n, val) ==
    IF i <= Len(str) /\ IsDigit(str[i])
    THEN Digits(str, i + 1, n + 1, 10 * val + DigitVal(str[i]))
    ELSE [n |-> n, val |-> val]

\* std::stoi(str): an optional sign, then digits up to the first character
\* that is none; std::invalid_argument is thrown when there is no digit
Stoi(str) ==
    LET neg == Len(str) >= 1 /\ str[1] = "-"
        d == Digits(str, IF neg THEN 2 ELSE 1, 0, 0)
    IN  IF d.n = 0 THEN [ok |-> FALSE, val |-> 0]
        ELSE [ok |-> TRUE, val |-> IF neg THEN -d.val ELSE d.val]

InitArgs ==
    /\ image_width = DEFAULT_WIDTH
    /\ image_height = 0
    /\ count = 0
    /\ atile = 0
    /\ image = NewImage
    /\ wpc = [w \in Workers |-> "unstarted"]
    /\ wtile = [w \in Workers |-> -1]
    /\ claims = <<>>
    /\ mpc = "args"
    /\ mi = 0
    /\ out = <<>>
    /\ stile = 0
    /\ samples_per_pixel = DEFAULT_SAMPLES
    /\ max_depth = DEFAULT_DEPTH
    /\ argc \in 1 .. 5
    /\ argv \in [1 .. (argc - 1) -> ArgStrings]
    /\ \A k \in 4 .. (argc - 1) : argv[k] \in SceneArgs
    /\ apc = "switch"
    /\ world = {}
    /\ ray = None
    /\ stack = <<>>
    /\ ret = None
    /\ hits = 0
    /\ scatters = 0
    /\ px = 0
    /\ py = 0
    /\ smp = 0
    /\ pixel_colour = Black
    /\ draws = <<>>
    /\ pass = 0
    /\ stored = <<>>
    /\ outpx = <<>>
    /\ ppc = "idle"

argFrame == <<image_height, schedVars, argc, argv, world, rayVars, hits, scatters,
              pixVars>>

\* trace.cpp:191: switch (argc) with cases 4, 3 and 2 and no default
ArgSwitch ==
    /\ apc = "switch"
    /\ apc' = IF argc = 4 THEN "case4"
              ELSE IF argc = 3 THEN "case3"
              ELSE IF argc = 2 THEN "case2"
              ELSE "end"
    /\ UNCHANGED <<argFrame, image_width, samples_per_pixel, max_depth>>

\* trace.cpp:192-194, falling through to case 3; an exception of std::stoi
\* is caught nowhere
ArgCase4 ==
    /\ apc = "case4"
    /\ LET p == Stoi(argv[3])
       IN  IF p.ok
           THEN /\ max_depth' = IF p.val = 0 THEN DEFAULT_DEPTH ELSE p.val
                /\ apc' = "case3"
           ELSE /\ max_depth' = max_depth
                /\ apc' = "thrown"
    /\ UNCHANGED <<argFrame, image_width, samples_per_pixel>>

\* trace.cpp:195-197, falling through to case 2
ArgCase3 ==
    /\ apc = "case3"
    /\ LET p == Stoi(argv[2])
       IN  IF p.ok
           THEN /\ samples_per_pixel' = IF p.val = 0 THEN DEFAULT_SAMPLES ELSE p.val
                /\ apc' = "case2"
           ELSE /\ samples_per_pixel' = samples_per_pixel
                /\ apc' = "thrown"
    /\ UNCHANGED <<argFrame, image_width, max_depth>>

\* trace.cpp:198-201
ArgCase2 ==
    /\ apc = "case2"
    /\ LET p == Stoi(argv[1])
       IN  IF p.ok
           THEN /\ image_width' = IF p.val = 0 THEN DEFAULT_WIDTH ELSE p.val
                /\ apc' = "end"
           ELSE /\ image_width' = image_width
                /\ apc' = "thrown"
    /\ UNCHANGED <<argFrame, samples_per_pixel, max_depth>>

NextArgs == ArgSwitch \/ ArgCase4 \/ ArgCase3 \/ ArgCase2

SpecArgs == InitArgs /\ [][NextArgs]_vars

\* ---------------------------------------------------------------- fairness
\* every started thread keeps being scheduled, and so does main
FairSpec ==
    /\ Spec
    /\ WF_vars(Main)
    /\ \A w \in Workers : WF_vars(Worker(w))

\* ================================================================== claims
Started == 1 .. count
TileCount == tile_count(image_width, image_height)
PixelCount == pixel_count(image_width, image_height)
Rendered(t) ==
    \E e \in LogEntries(image) :
        image[e[1]][e[2]] = TileRect(image_width, image_height, t)

\* C1: when renderImage has gone through the tiles 0..tile_count-1, every
\* pixel (x,y) of the image lies in exactly one of the tile rectangles it
\* computed, whatever the width >= 2 and height >= 1.
C1_TilesPartitionImage ==
    mpc = "rendered" =>
        \A x \in 0 .. (image_width - 1), y \in 0 .. (image_height - 1) :
            Cardinality({ e \in LogEntries(image) :
                            InRect(image[e[1]][e[2]], x, y) }) = 1

\* C2: once main has joined all its workers (at least one), every index of
\* the buffer has received exactly one write.  The statement is taken here
\* for images that have at least one tile; without this restriction it
\* fails already for the 40 x 26 image, whose tile grid is empty.
C2_EveryIndexWrittenOnce ==
    (mpc \in {"output", "done"} /\ count >= 1 /\ TileCount >= 1) =>
        \A i \in 0 .. (PixelCount - 1) : WriteCount(image, image_width, i) = 1

C4_NoOutputBeforeJoin ==
    out # <<>> => \A w \in Started : wpc[w] = "joined"

\* C4 amended: the pixel lines are written only when every worker of the pass
\* has been created and joined; the header alone is written earlier, before
\* the first worker is created.
C4_PixelLinesAfterJoin ==
    /\ (\E k \in 1 .. Len(out) : out[k][1] = "pixels") =>
           \A w \in Started : wpc[w] = "joined"
    /\ (\E w \in Workers : wpc[w] # "unstarted") =>
           (Len(out) >= 1 /\ out[1][1] = "P3")
    /\ \A w \in Workers : w \notin Started => wpc[w] = "unstarted"

C4_Witness ==
    /\ count >= 2
    /\ Len(out) = 2
    /\ out[2][1] = "pixels"
    /\ \A w \in Started : wpc[w] = "joined"

C5_BlackAtDepthZero ==
    [][/\ (ppc = "running" /\ ret = None /\ Top.pc = "enter" /\ Top.depth <= 0) =>
             (ret' = Black /\ stack' = Pop /\ hits' = hits /\ scatters' = scatters)
       /\ (ppc' = "returned" /\ max_depth <= 0) =>
             (ret' = Black /\ hits' = 0 /\ scatters' = 0)]_vars

C5_Witness ==
    /\ ppc = "returned"
    /\ max_depth = 0
    /\ world # {}
    /\ ret = Black
    /\ hits = 0

\* C10: a top-level call ray_colour(r, world, max_depth) with max_depth >= 0
\* returns; at no time are more than max_depth + 1 activations nested or more
\* than max_depth scatter calls made; the outermost activation has depth
\* max_depth and every nested one has the depth of its caller minus 1.
C10_BoundedRecursion ==
    /\ <>(ppc = "returned")
    /\ [](max_depth >= 0 =>
            /\ Len(stack) <= max_depth + 1
            /\ scatters <= max_depth
            /\ (stack # <<>> => stack[1].depth = max_depth)
            /\ \A k \in 2 .. Len(stack) : stack[k].depth = stack[k - 1].depth - 1)

C10_Witness ==
    /\ max_depth >= 2
    /\ Len(stack) = max_depth + 1
    /\ scatters = max_depth
    /\ Top.depth = 0

\* C6: the argument handling never fails, and when it is over each of
\* image_width, samples_per_pixel and max_depth is the value parsed from its
\* argument or, when the argument is absent, invalid or zero, its default;
\* a fourth argument changes nothing of this.
Expected(k, default) ==
    IF k > argc - 1 THEN default
    ELSE LET p == Stoi(argv[k])
         IN  IF ~p.ok \/ p.val = 0 THEN default ELSE p.val

C6_ArgumentsOrDefaults ==
    /\ apc # "thrown"
    /\ apc = "end" =>
          /\ image_width = Expected(1, DEFAULT_WIDTH)
          /\ samples_per_pixel = Expected(2, DEFAULT_SAMPLES)
          /\ max_depth = Expected(3, DEFAULT_DEPTH)

\* C7: each integer written for a pixel is the stored average after a square
\* root, a clamp to [0, 0.999], a scaling by 256 and a truncation, and lies in
\* 0..255.
GammaChannel(c) == TruncDiv(256 * Clamp(ISqrt(c * Scale), 0, 999), Scale)

C7_GammaEncodedChannels ==
    \A p \in 1 .. Len(outpx) :
        outpx[p] # None =>
            \A k \in 1 .. 3 :
                /\ outpx[p][k] = GammaChannel(stored[p][k])
                /\ outpx[p][k] \in 0 .. 255

\* C8 as stated: with an empty world, two passes over the same pixel write
\* the same value whatever random numbers they draw.
C8_PassesWriteSameValue ==
    (world = {} /\ Len(stored) = 2 /\ stored[1] # None /\ stored[2] # None) =>
        stored[1] = stored[2]

\* C8 amended: with an empty world no scatter call is ever made, and the
\* value written for a pixel is, for max_depth > 0, the average over its
\* samples of the background gradient along the camera ray of each sample,
\* the ray being fixed by the pixel, the image size, the camera and the
\* jitter and lens numbers drawn for the sample; for max_depth <= 0 it is
\* black.
RECURSIVE SumBackground(_)
SumBackground(ds) ==
    IF ds = <<>> THEN Black
    ELSE LET d == ds[Len(ds)]
         IN  AddColour(SumBackground(SubSeq(ds, 1, Len(ds) - 1)),
                       Background(get_ray(SampleU(px, d.jx, image_width),
                                          SampleV(py, d.jy, image_height),
                                          d.lens)))

C8_EmptyWorldAveragesBackground ==
    (world = {} /\ ppc # "idle") =>
        /\ scatters = 0
        /\ (ppc \in {"stored", "written"} /\ max_depth > 0) =>
              stored[pass] = DivColour(SumBackground(draws), samples_per_pixel)
        /\ (ppc \in {"stored", "written"} /\ max_depth <= 0) =>
              stored[pass] = Black

C8_Witness ==
    /\ world = {}
    /\ max_depth > 0
    /\ samples_per_pixel = 2
    /\ pass = 2
    /\ ppc = "written"
    /\ stored[1] # stored[2]

\* C11: atile is 0 as long as no worker of the pass has fetched from it (so
\* it is 0 at the first fetch); it never decreases; every change of it is an
\* increment by exactly 1 made by a worker at `int tile = atile++`, which
\* hands that worker the value before the increment; nothing else (creating
\* or joining a thread, rendering, output) resets or changes it.  At all
\* times the values fetched so far are exactly 0 .. atile-1.
C11_CounterOnlyIncrements ==
    /\ [](claims = <<>> => atile = 0)
    /\ [](atile >= 0 /\ DOMAIN claims = 0 .. (atile - 1))
    /\ [][atile' >= atile]_vars
    /\ [][atile' # atile =>
              /\ atile' = atile + 1
              /\ \E w \in Started :
                     /\ wpc[w] = "claim"
                     /\ wpc'[w] # "claim"
                     /\ wtile'[w] = atile
                     /\ \A v \in Workers \ {w} :
                            wpc'[v] = wpc[v] /\ wtile'[v] = wtile[v]
              /\ mpc' = mpc /\ mi' = mi /\ image' = image /\ out' = out]_vars
    /\ [][(mpc' # mpc \/ mi' # mi \/ image' # image \/ out' # out) =>
              atile' = atile]_vars

C11_Witness ==
    /\ mpc = "done"
    /\ count >= 2
    /\ TileCount >= 2
    /\ atile = TileCount + count
    /\ \A w \in Started : image[w] # <<>>

\* the attenuations held by the activations of a stack, outermost first
Attenuations(stk) == [k \in 1 .. Len(stk) |-> stk[k].attenuation]

\* a1 * (a2 * ( ... * (an * v))): the attenuations of a scatter chain applied
\* to the value v its last ray yields, element-wise
RECURSIVE ChainProduct(_, _)
ChainProduct(atts, v) ==
    IF atts = <<>> THEN v
    ELSE MulColour(Head(atts), ChainProduct(Tail(atts), v))

\* C12: a call with depth > 0 tests the world; on no hit it returns the
\* background gradient of its ray and scatter is not called for it; on a hit
\* whose material absorbs it returns black, whatever its depth; on a hit
\* whose material scatters it calls ray_colour on the scattered ray with
\* depth - 1 and returns the attenuation times the value of that call.  When
\* a path ends (background, absorption, or depth used up) the activations
\* still open hold exactly the attenuations of its scatter chain, one per
\* scatter that produced a ray, and the value the top-level call finally
\* returns is the product of these attenuations with the terminal value.
C12_PathProduct ==
    /\ []((ppc = "running" /\ stack # <<>> /\ Top.pc \in {"hit", "scatter", "wait"}) =>
              Top.depth > 0)
    /\ [][(ppc = "running" /\ ret = None /\ ret' # None) =>
              /\ stack' = Pop
              /\ \A k \in 1 .. Len(stack') : stack'[k].pc = "wait"
              /\ Top.pc = "hit" =>
                     (ret' = Background(Top.r) /\ scatters' = scatters
                         /\ scatters' = Len(stack'))
              /\ Top.pc = "scatter" =>
                     (ret' = Black /\ scatters' = Len(stack') + 1)
              /\ Top.pc = "enter" =>
                     (ret' = Black /\ Top.depth <= 0 /\ scatters' = Len(stack'))]_vars
    /\ [][(ppc = "running" /\ ret = None /\ Len(stack') > Len(stack) /\ stack # <<>>) =>
              /\ Top.pc = "scatter"
              /\ \E sc \in ScatterOutcomes(Top.mat) \ {None} :
                     /\ stack'[Len(stack)] = [Top EXCEPT !.pc = "wait",
                                                         !.attenuation = sc.attenuation]
                     /\ stack'[Len(stack')] = Frame(sc.scattered, Top.depth - 1)
              /\ Len(stack') = Len(stack) + 1
              /\ SubSeq(stack', 1, Len(stack) - 1) = SubSeq(stack, 1, Len(stack) - 1)]_vars
    /\ [][(ppc = "running" /\ ret # None /\ stack # <<>>) =>
              (ret' = MulColour(Top.attenuation, ret) /\ stack' = Pop)]_vars
    /\ [][ret # None =>
              /\ ret' # None
              /\ ChainProduct(Attenuations(stack'), ret')
                     = ChainProduct(Attenuations(stack), ret)]_vars
    /\ [](ppc = "returned" => (stack = <<>> /\ pixel_colour = ret))

C12_Witness ==
    /\ ppc = "returned"
    /\ max_depth = 3
    /\ scatters = 2
    /\ hits = 3
    /\ ret = ChainProduct(<<Lambertian.albedo, Metal.albedo>>, Background(<<0, 1000, 0>>))
    /\ ret # Black
====
